---- MODULE Spec2Model ----
\* Model of the search core of the concert scraper: the HTTP application
\* (main.py) and the tool server (mcp_server.py).  Text is a sequence of
\* one-character strings so that lower(), substring tests and concatenation
\* are computed rather than assumed.
EXTENDS Integers, Sequences, FiniteSets, TLC

\* ------------------------------------------------------------------ bounds
\* Posts the external provider yields, over all searches of one request.
MaxYield == 2
\* Provider failures (exceptions) during one request.
MaxFail == 1
\* Distinct posts the provider holds.
NumPosts == 2

\* ------------------------------------------------------------------ text
UpperCase == <<"A", "B", "C", "D", "E", "F", "G", "H", "I", "J", "K", "L", "M",
               "N", "O", "P", "Q", "R", "S", "T", "U", "V", "W", "X", "Y", "Z">>
LowerCase == <<"a", "b", "c", "d", "e", "f", "g", "h", "i", "j", "k", "l", "m",
               "n", "o", "p", "q", "r", "s", "t", "u", "v", "w", "x", "y", "z">>

ToLower ==
    [c \in { UpperCase[i] : i \in 1..Len(UpperCase) } |->
        LowerCase[CHOOSE i \in 1..Len(UpperCase) : UpperCase[i] = c]]

\* str.lower() on one character.
LowerChar(c) == IF c \in DOMAIN ToLower THEN ToLower[c] ELSE c

\* str.lower()
Lower(s) == [i \in 1..Len(s) |-> LowerChar(s[i])]

\* Python's `pat in text` on strings.
Contains(text, pat) ==
    \E i \in 0..(Len(text) - Len(pat)) : SubSeq(text, i + 1, i + Len(pat)) = pat

\* f"{a} {b}"
Join(a, b) == a \o <<" ">> \o b

\* ------------------------------------------------------------------ program constants
CONCERT_SUBREDDITS == <<
    <<"c", "o", "n", "c", "e", "r", "t">>,
    <<"e", "d", "m">>,
    <<"l", "i", "v", "e", "m", "u", "s", "i", "c">>,
    <<"U", "M", "F">>,
    <<"s", "e", "t", "l", "i", "s", "t">>,
    <<"f", "e", "s", "t", "i", "v", "a", "l", "s">>,
    <<"e", "l", "e", "c", "t", "r", "o", "n", "i", "c", "m", "u", "s", "i", "c">>,
    <<"a", "v", "e", "s">>,
    <<"e", "d", "m", "p", "r", "o", "d", "c", "i", "r", "c", "l", "e", "j", "e", "r", "k">>,
    <<"e", "l", "e", "c", "t", "r", "o", "n", "i", "c", "d", "a", "n", "c", "e", "m", "u", "s", "i", "c">> >>

setlist_subreddits == <<
    <<"s", "e", "t", "l", "i", "s", "t">>,
    <<"c", "o", "n", "c", "e", "r", "t">>,
    <<"e", "d", "m">>,
    <<"l", "i", "v", "e", "m", "u", "s", "i", "c">>,
    <<"U", "M", "F">> >>

edm_subreddits == <<
    <<"e", "d", "m">>,
    <<"U", "M", "F">>,
    <<"e", "l", "e", "c", "t", "r", "o", "n", "i", "c", "m", "u", "s", "i", "c">>,
    <<"a", "v", "e", "s">>,
    <<"f", "e", "s", "t", "i", "v", "a", "l", "s">>,
    <<"e", "d", "m", "p", "r", "o", "d", "c", "i", "r", "c", "l", "e", "j", "e", "r", "k">> >>

\* Vocabulary of _generate_search_terms.
concert_terms == <<
    <<"c", "o", "n", "c", "e", "r", "t">>,
    <<"s", "h", "o", "w">>,
    <<"t", "o", "u", "r">>,
    <<"f", "e", "s", "t", "i", "v", "a", "l">>,
    <<"s", "e", "t", "l", "i", "s", "t">>,
    <<"l", "i", "v", "e">> >>

\* Keyword list of _is_relevant_post.
concert_keywords == <<
    <<"c", "o", "n", "c", "e", "r", "t">>,
    <<"s", "h", "o", "w">>,
    <<"t", "o", "u", "r">>,
    <<"f", "e", "s", "t", "i", "v", "a", "l">>,
    <<"s", "e", "t", "l", "i", "s", "t">>,
    <<"l", "i", "v", "e">>,
    <<"v", "e", "n", "u", "e">>,
    <<"t", "i", "c", "k", "e", "t", "s">>,
    <<"d", "a", "t", "e">>,
    <<"t", "i", "m", "e">>,
    <<"s", "c", "h", "e", "d", "u", "l", "e">>,
    <<"l", "i", "n", "e", "u", "p">>,
    <<"p", "e", "r", "f", "o", "r", "m", "a", "n", "c", "e">>,
    <<"g", "i", "g">>,
    <<"e", "v", "e", "n", "t">>,
    <<"a", "p", "p", "e", "a", "r", "a", "n", "c", "e">>,
    <<"p", "l", "a", "y", "i", "n", "g">>,
    <<"s", "t", "a", "g", "e">>,
    <<"m", "u", "s", "i", "c">>,
    <<"s", "o", "n", "g">>,
    <<"a", "l", "b", "u", "m">>,
    <<"r", "e", "l", "e", "a", "s", "e">>,
    <<"n", "e", "w">>,
    <<"u", "p", "c", "o", "m", "i", "n", "g">>,
    <<"a", "n", "n", "o", "u", "n", "c", "e", "d">> >>

\* The always-relevant channels without "UMF".
concert_subreddits_without_umf == <<
    <<"c", "o", "n", "c", "e", "r", "t">>,
    <<"e", "d", "m">>,
    <<"l", "i", "v", "e", "m", "u", "s", "i", "c">>,
    <<"s", "e", "t", "l", "i", "s", "t">>,
    <<"f", "e", "s", "t", "i", "v", "a", "l", "s">> >>

\* Always-relevant channels of _is_relevant_post.
concert_subreddits == <<
    <<"c", "o", "n", "c", "e", "r", "t">>,
    <<"e", "d", "m">>,
    <<"l", "i", "v", "e", "m", "u", "s", "i", "c">>,
    <<"U", "M", "F">>,
    <<"s", "e", "t", "l", "i", "s", "t">>,
    <<"f", "e", "s", "t", "i", "v", "a", "l", "s">> >>

SetlistWord == <<"s", "e", "t", "l", "i", "s", "t">>

\* A slice one query too long.
QueryLimitPlusOne == 3 + 1

\* search_terms[:3]
QueryLimit == 3

\* selftext[:500]
PreviewLen == 500

UrlPrefix == "https://reddit.com"

\* ------------------------------------------------------------------ request inputs
Artist == <<"x">>
Loc == <<"y">>
Venue == <<"v">>
Fest == <<"f">>

\* The `artist` field as it arrives: key absent, JSON null, or a string.
ArtistInputs ==
    { [kind |-> "missing", text |-> <<>>],
      [kind |-> "null", text |-> <<>>],
      [kind |-> "text", text |-> <<>>],
      [kind |-> "text", text |-> Artist] }

\* Optional string fields; <<>> stands for both None and "" (both falsy).
LocationInputs == {<<>>, Loc}
VenueInputs == {<<>>, Venue}
FestivalInputs == {<<>>, Fest}

\* ------------------------------------------------------------------ the provider's posts
\* A submission object of the provider: the fields the code reads.
PostOf(i) ==
    LET k == ((i - 1) % 3) + 1 IN
    [ id |-> i,
      permalink |-> i,
      title |-> CASE k = 1 -> <<"x", " ", "s", "e", "t", "l", "i", "s", "t">>
                  [] k = 2 -> <<"q">>
                  [] OTHER -> <<"X">>,
      selftext |-> IF k = 1 THEN <<"y">> ELSE <<>>,
      display_name |-> CASE k = 1 -> <<"E", "D", "M">>
                         [] k = 2 -> <<"a", "v", "e", "s">>
                         [] OTHER -> <<"U", "M", "F">> ]

Posts == { PostOf(i) : i \in 1..NumPosts }

\* ------------------------------------------------------------------ pure functions
RECURSIVE VocabTerms(_, _, _)
VocabTerms(artist, location, i) ==
    IF i > Len(concert_terms) THEN <<>>
    ELSE LET term == concert_terms[i] IN
         <<Join(artist, term), Join(term, artist)>>
         \o (IF location # <<>>
             THEN <<Join(Join(artist, term), location), Join(Join(location, artist), term)>>
             ELSE <<>>)
         \o VocabTerms(artist, location, i + 1)

\* _generate_search_terms testing `location is not None`: an empty location
\* still contributes its two terms.
GenerateSearchTermsEmptyLocationCounts(artist, location) ==
    <<artist>> \o <<Join(artist, location), Join(location, artist)>>
    \o VocabTerms(artist, location, 1)

\* _generate_search_terms whose vocabulary loop ignores the location.
GenerateSearchTermsLocationOnce(artist, location) ==
    <<artist>>
    \o (IF location # <<>> THEN <<Join(artist, location), Join(location, artist)>> ELSE <<>>)
    \o VocabTerms(artist, <<>>, 1)

\* _generate_search_terms adding the two location terms after the vocabulary.
GenerateSearchTermsLocationLast(artist, location) ==
    <<artist>>
    \o VocabTerms(artist, location, 1)
    \o (IF location # <<>> THEN <<Join(artist, location), Join(location, artist)>> ELSE <<>>)

\* RedditConcertScraper._generate_search_terms
GenerateSearchTerms(artist, location) ==
    <<artist>>
    \o (IF location # <<>> THEN <<Join(artist, location), Join(location, artist)>> ELSE <<>>)
    \o VocabTerms(artist, location, 1)

\* seq[:n]
Take(seq, n) == SubSeq(seq, 1, IF Len(seq) < n THEN Len(seq) ELSE n)

\* _is_relevant_post with the channel test moved in front of the artist test.
IsRelevantPostChannelFirst(submission, artist, location) ==
    LET text == Lower(Join(submission.title, submission.selftext)) IN
    IF \E s \in 1..Len(concert_subreddits) :
            Lower(submission.display_name) = Lower(concert_subreddits[s]) THEN TRUE
    ELSE IF ~Contains(text, Lower(artist)) THEN FALSE
    ELSE IF location # <<>> /\ ~Contains(text, Lower(location)) THEN FALSE
    ELSE \E k \in 1..Len(concert_keywords) : Contains(text, concert_keywords[k])

\* RedditConcertScraper._is_relevant_post
IsRelevantPost(submission, artist, location) ==
    LET text == Lower(Join(submission.title, submission.selftext))
        artist_lower == Lower(artist)
    IN  IF ~Contains(text, artist_lower) THEN FALSE
        ELSE IF location # <<>> /\ ~Contains(text, Lower(location)) THEN FALSE
        ELSE IF \E k \in 1..Len(concert_keywords) : Contains(text, concert_keywords[k]) THEN TRUE
        ELSE IF \E s \in 1..Len(concert_subreddits) :
                    Lower(submission.display_name) = Lower(concert_subreddits[s]) THEN TRUE
        ELSE FALSE

\* ------------------------------------------------------------------ regular expressions
\* The subset of Python's `re` that date_patterns and time_patterns use, under
\* re.IGNORECASE. A pattern is a sequence of elements:
\*   [k |-> "cls", set, min, max]   a character class repeated min..max times (greedy)
\*   [k |-> "many", set, min]       a character class repeated at least min times (greedy)
\*   [k |-> "alt", words]           an alternation of literals, tried in order
\*   [k |-> "opt", sub]             (?:sub)?, greedy
\*   [k |-> "open"], [k |-> "close"]  the parentheses of group 1
Digits == {"0", "1", "2", "3", "4", "5", "6", "7", "8", "9"}
Letters == { LowerCase[i] : i \in 1..Len(LowerCase) }
WhiteSpace == {" ", "\t", "\n"}

FullMonths == <<
    <<"j", "a", "n", "u", "a", "r", "y">>, <<"f", "e", "b", "r", "u", "a", "r", "y">>,
    <<"m", "a", "r", "c", "h">>, <<"a", "p", "r", "i", "l">>, <<"m", "a", "y">>,
    <<"j", "u", "n", "e">>, <<"j", "u", "l", "y">>, <<"a", "u", "g", "u", "s", "t">>,
    <<"s", "e", "p", "t", "e", "m", "b", "e", "r">>,
    <<"o", "c", "t", "o", "b", "e", "r">>, <<"n", "o", "v", "e", "m", "b", "e", "r">>,
    <<"d", "e", "c", "e", "m", "b", "e", "r">> >>

ShortMonths == <<
    <<"j", "a", "n">>, <<"f", "e", "b">>, <<"m", "a", "r">>, <<"a", "p", "r">>,
    <<"m", "a", "y">>, <<"j", "u", "n">>, <<"j", "u", "l">>, <<"a", "u", "g">>,
    <<"s", "e", "p">>, <<"o", "c", "t">>, <<"n", "o", "v">>, <<"d", "e", "c">> >>

Meridiems == << <<"a", "m">>, <<"p", "m">>, <<"A", "M">>, <<"P", "M">> >>

Open == [k |-> "open"]
Close == [k |-> "close"]
Cls(set, min, max) == [k |-> "cls", set |-> set, min |-> min, max |-> max]
Many(set, min) == [k |-> "many", set |-> set, min |-> min]
Alt(ws) == [k |-> "alt", words |-> [i \in 1..Len(ws) |-> Lower(ws[i])]]
Lit(w) == Alt(<<w>>)
Opt(sub) == [k |-> "opt", sub |-> sub]

\* Matching runs on the case-folded text (re.IGNORECASE), against case-folded
\* literals and classes of lower-case letters; group 1 is cut from the text as
\* it was given.
\* The number of characters from pos on that belong to the class.
RECURSIVE Run(_, _, _)
Run(text, pos, set) ==
    IF pos <= Len(text) /\ text[pos] \in set THEN 1 + Run(text, pos + 1, set) ELSE 0

\* The literal w stands at pos.
LiteralAt(text, pos, w) ==
    /\ pos + Len(w) - 1 <= Len(text)
    /\ \A i \in 1..Len(w) : text[pos + i - 1] = w[i]

NoMatch == [ok |-> FALSE, end |-> 0, cs |-> 0, ce |-> 0]

\* The backtracking matcher: the first match of elems at pos in priority
\* order, with the span [cs, ce) of group 1.
RECURSIVE Match(_, _, _, _)
RECURSIVE TryCounts(_, _, _, _, _, _)
RECURSIVE TryWords(_, _, _, _, _, _)
Match(elems, text, pos, g) ==
    IF elems = <<>> THEN [ok |-> TRUE, end |-> pos, cs |-> g.cs, ce |-> g.ce]
    ELSE LET e == Head(elems)
             rest == Tail(elems)
         IN CASE e.k = "open" -> Match(rest, text, pos, [g EXCEPT !.cs = pos])
              [] e.k = "close" -> Match(rest, text, pos, [g EXCEPT !.ce = pos])
              [] e.k = "cls" ->
                   LET avail == Run(text, pos, e.set) IN
                   TryCounts(IF avail < e.max THEN avail ELSE e.max, e.min, rest, text, pos, g)
              [] e.k = "many" -> TryCounts(Run(text, pos, e.set), e.min, rest, text, pos, g)
              [] e.k = "alt" -> TryWords(e.words, 1, rest, text, pos, g)
              [] e.k = "opt" ->
                   LET with == Match(e.sub \o rest, text, pos, g) IN
                   IF with.ok THEN with ELSE Match(rest, text, pos, g)

\* Greedy repetition: n characters, then fewer.
TryCounts(n, min, rest, text, pos, g) ==
    IF n < min THEN NoMatch
    ELSE LET r == Match(rest, text, pos + n, g) IN
         IF r.ok THEN r ELSE TryCounts(n - 1, min, rest, text, pos, g)

\* Alternation: the first alternative after which the rest matches.
TryWords(ws, i, rest, text, pos, g) ==
    IF i > Len(ws) THEN NoMatch
    ELSE LET r == IF LiteralAt(text, pos, ws[i])
                  THEN Match(rest, text, pos + Len(ws[i]), g)
                  ELSE NoMatch
         IN IF r.ok THEN r ELSE TryWords(ws, i + 1, rest, text, pos, g)

\* A match attempt at position p.
MatchAt(elems, folded, p) == Match(elems, folded, p, [cs |-> p, ce |-> p])

\* re.findall(pattern, text, re.IGNORECASE) for a pattern with one group: the
\* text of group 1 of each non-overlapping match, scanning left to right.
RECURSIVE FindFrom(_, _, _, _)
FindFrom(elems, text, folded, pos) ==
    LET starts == { p \in pos..Len(text) : MatchAt(elems, folded, p).ok } IN
    IF starts = {} THEN <<>>
    ELSE LET p == CHOOSE q \in starts : \A o \in starts : q <= o
             r == MatchAt(elems, folded, p)
         IN <<SubSeq(text, r.cs, r.ce - 1)>>
            \o FindFrom(elems, text, folded, IF r.end > p THEN r.end ELSE p + 1)

FindAll(elems, text) == FindFrom(elems, text, Lower(text), 1)

Sep == Cls({"/", "-"}, 1, 1)
Colon == Cls({":"}, 1, 1)
Spaces == Many(WhiteSpace, 1)

\* date_patterns of _extract_concert_info
date_patterns == <<
    <<Open, Cls(Digits, 1, 2), Sep, Cls(Digits, 1, 2), Sep, Cls(Digits, 2, 4), Close>>,
    <<Open, Cls(Digits, 4, 4), Sep, Cls(Digits, 1, 2), Sep, Cls(Digits, 1, 2), Close>>,
    <<Open, Alt(FullMonths), Close, Spaces, Cls(Digits, 1, 2), Cls({","}, 0, 1), Spaces,
      Cls(Digits, 4, 4)>>,
    <<Open, Cls(Digits, 1, 2), Spaces, Alt(ShortMonths), Many(Letters, 0), Spaces,
      Cls(Digits, 4, 4), Close>> >>

\* The four time patterns, as written.
time_patterns_in_order == <<
    <<Open, Cls(Digits, 1, 2), Colon, Cls(Digits, 2, 2), Many(WhiteSpace, 0),
      Opt(<<Alt(Meridiems)>>), Close>>,
    <<Open, Cls(Digits, 1, 2), Many(WhiteSpace, 0), Alt(Meridiems), Close>>,
    <<Open, Lit(<<"d", "o", "o", "r">>), Cls({"s"}, 0, 1), Spaces, Opt(<<Lit(<<"a", "t">>), Spaces>>),
      Cls(Digits, 1, 2), Colon, Cls(Digits, 2, 2), Close>>,
    <<Open, Lit(<<"s", "h", "o", "w">>), Spaces, Opt(<<Lit(<<"a", "t">>), Spaces>>),
      Cls(Digits, 1, 2), Colon, Cls(Digits, 2, 2), Close>> >>

\* time_patterns with the bare-hour pattern applied first.
time_patterns_hour_first ==
    <<time_patterns_in_order[2], time_patterns_in_order[1],
      time_patterns_in_order[3], time_patterns_in_order[4]>>

\* time_patterns of _extract_concert_info
time_patterns == time_patterns_in_order

\* `for pattern in patterns: found.extend(re.findall(pattern, text, re.IGNORECASE))`
RECURSIVE FindAllOf(_, _, _)
FindAllOf(patterns, i, text) ==
    IF i > Len(patterns) THEN <<>>
    ELSE FindAll(patterns[i], text) \o FindAllOf(patterns, i + 1, text)

\* The "text" field cutting at `len(selftext) >= 500`.
PreviewFromLimit(selftext) ==
    IF Len(selftext) >= PreviewLen
    THEN SubSeq(selftext, 1, PreviewLen) \o <<".", ".", ".">>
    ELSE selftext

\* The "text" field of _extract_concert_info.
Preview(selftext) ==
    IF Len(selftext) > PreviewLen
    THEN SubSeq(selftext, 1, PreviewLen) \o <<".", ".", ".">>
    ELSE selftext

\* RedditConcertScraper._extract_concert_info
ExtractConcertInfo(submission) ==
    [ title |-> submission.title,
      url |-> <<UrlPrefix, submission.permalink>>,
      subreddit |-> submission.display_name,
      text |-> Preview(submission.selftext),
      dates_found |-> FindAllOf(date_patterns, 1, Join(submission.title, submission.selftext)),
      times_found |-> FindAllOf(time_patterns, 1, Join(submission.title, submission.selftext)) ]

\* _extract_concert_info(submission) for each post the provider holds: a
\* function of the post alone, evaluated once.
PostRecords == [i \in 1..NumPosts |-> ExtractConcertInfo(PostOf(i))]

\* ------------------------------------------------------------------ get_concert_dates
DigitChars == <<"0", "1", "2", "3", "4", "5", "6", "7", "8", "9">>

\* The characters of the modelled texts in code point order.
CodeOrder == <<" ", ",", "-", ".", "/">> \o DigitChars \o <<":">> \o UpperCase \o LowerCase

CodeOf ==
    [c \in { CodeOrder[i] : i \in 1..Len(CodeOrder) } |->
        CHOOSE i \in 1..Len(CodeOrder) : CodeOrder[i] = c]

\* Python's `a < b` on strings.
StrLess(a, b) ==
    \/ \E i \in 1..(IF Len(a) < Len(b) THEN Len(a) ELSE Len(b)) :
         /\ \A j \in 1..(i - 1) : a[j] = b[j]
         /\ CodeOf[a[i]] < CodeOf[b[i]]
    \/ /\ Len(a) < Len(b)
       /\ \A j \in 1..Len(a) : a[j] = b[j]

\* The entries one post contributes under the key `name`.
DatesOfPost(post, name) ==
    [j \in 1..Len(post.dates_found) |->
        [ date |-> post.dates_found[j],
          title |-> post.title,
          subreddit |-> name,
          url |-> post.url,
          times |-> post.times_found ]]

RECURSIVE DatesOfPosts(_, _, _)
DatesOfPosts(posts, name, i) ==
    IF i > Len(posts) THEN <<>>
    ELSE DatesOfPost(posts[i], name) \o DatesOfPosts(posts, name, i + 1)

\* `for subreddit, posts in results.items(): ...: all_dates.append(...)`
RECURSIVE AllDates(_, _)
AllDates(res, k) ==
    IF k > Len(res) THEN <<>>
    ELSE DatesOfPosts(res[k].posts, res[k].name, 1) \o AllDates(res, k + 1)

\* e put behind the entries of a sorted list that do not come after it.
InsertByDate(sorted, e) ==
    LET n == Cardinality({ i \in 1..Len(sorted) : ~StrLess(e.date, sorted[i].date) }) IN
    SubSeq(sorted, 1, n) \o <<e>> \o SubSeq(sorted, n + 1, Len(sorted))

\* The list left as it was built.
KeepOrder(seq) == seq

\* all_dates.sort(key=lambda x: x['date']): a stable sort.
RECURSIVE SortByDate(_)
SortByDate(seq) ==
    IF seq = <<>> THEN <<>>
    ELSE InsertByDate(SortByDate(SubSeq(seq, 1, Len(seq) - 1)), seq[Len(seq)])

\* all_dates[:10]
ListLimit == 10

\* The entries get_concert_dates prints (none: "No specific dates found").
DateListing(res) == Take(SortByDate(AllDates(res, 1)), ListLimit)

\* The post a record was assembled from is recognised by its permalink.
RecId(rec) == rec.url[2]

\* Acceptance in setlist mode.
AcceptSetlist(submission) ==
    \/ Contains(Lower(submission.title), SetlistWord)
    \/ Contains(Lower(submission.selftext), SetlistWord)

\* Acceptance in general mode if the relevance filter were applied.
AcceptGeneralFiltered(submission, artist, location) ==
    IsRelevantPost(submission, artist, location)

\* Acceptance in general mode: every post is added, no filtering.
AcceptGeneral(submission, artist, location) == TRUE

\* A membership test that never skips.
AlreadySeenNever(id, seen) == FALSE

\* `if submission.id in seen_posts: continue`
AlreadySeen(id, seen) == id \in seen

\* A seen-set kept from one channel to the next.
FreshSeenCarried(previous) == previous

\* `seen_posts = set()` at the top of each channel's iteration.
FreshSeen(previous) == {}

\* A key taken from the first record's own channel name.
ResultKeyFromRecord(name, recs) == IF recs # <<>> THEN recs[1].subreddit ELSE name

\* The key of `results[subreddit_name] = subreddit_results`: the name taken
\* from the channel list.
ResultKey(name, recs) == name

\* A store without the emptiness test.
StoreChannelAlways(res, name, recs) ==
    Append(res, [name |-> ResultKey(name, recs), posts |-> recs])

\* `if subreddit_results: results[subreddit_name] = subreddit_results`
StoreChannel(res, name, recs) ==
    IF recs # <<>> THEN Append(res, [name |-> ResultKey(name, recs), posts |-> recs]) ELSE res

\* A validation that lets every artist through.
ArtistMissingNever(artist) == FALSE

\* `if not artist`
ArtistMissing(artist) == artist = <<>>

\* str.strip() (spaces are the only whitespace of the modelled inputs)
RECURSIVE LStrip(_)
LStrip(s) == IF s # <<>> /\ Head(s) = " " THEN LStrip(Tail(s)) ELSE s

RECURSIVE RStrip(_)
RStrip(s) == IF s # <<>> /\ s[Len(s)] = " " THEN RStrip(SubSeq(s, 1, Len(s) - 1)) ELSE s

Strip(s) == RStrip(LStrip(s))

\* ------------------------------------------------------------------ provider behaviour
\* What one provider search does: the posts it yields, in order, and how the
\* iteration ends: "ok" (exhausted), "raise" (the provider raises after the
\* listed posts), "raise_extract" (assembling the last listed post raises, if
\* the code gets to assembling it).
SeqsUpTo(S, n) == UNION { [1..k -> S] : k \in 0..n }

QueryOutcomes(y, f) ==
    { b \in [ posts : SeqsUpTo(Posts, y),
              end : {"ok"} \cup (IF f > 0 THEN {"raise", "raise_extract"} ELSE {}) ] :
        ~(b.posts = <<>> /\ b.end = "raise_extract") }

Fails(b) == IF b.end = "ok" THEN 0 ELSE 1

\* The behaviours of n successive searches within the remaining budget.
RECURSIVE Behaviours(_, _, _)
Behaviours(n, y, f) ==
    IF n = 0 THEN { <<>> }
    ELSE UNION { { <<b>> \o rest : rest \in Behaviours(n - 1, y - Len(b.posts), f - Fails(b)) } :
                 b \in QueryOutcomes(y, f) }

RECURSIVE SumYield(_, _)
SumYield(behs, j) == IF j > Len(behs) THEN 0 ELSE Len(behs[j].posts) + SumYield(behs, j + 1)

RECURSIVE SumFail(_, _)
SumFail(behs, j) == IF j > Len(behs) THEN 0 ELSE Fails(behs[j]) + SumFail(behs, j + 1)

YieldedIds(behs) ==
    UNION { { behs[j].posts[i].id : i \in 1..Len(behs[j].posts) } : j \in 1..Len(behs) }

\* ------------------------------------------------------------------ loop bodies
\* A list that takes its new record in front.
AddRecordInFront(recs, rec) == <<rec>> \o recs

\* `subreddit_results.append(self._extract_concert_info(submission))`
AddRecord(recs, rec) == Append(recs, rec)

\* The `for submission in subreddit.search(...)` loop of search_concerts with
\* its `except Exception as search_error`: st = [seen, recs, raised].
RECURSIVE ConsumeGeneral(_, _, _, _, _, _)
ConsumeGeneral(posts, i, st, end, art, loc) ==
    IF i > Len(posts) THEN [st EXCEPT !.raised = (end = "raise")]
    ELSE LET p == posts[i] IN
         IF AlreadySeen(p.id, st.seen)
         THEN ConsumeGeneral(posts, i + 1, st, end, art, loc)
         ELSE LET seen2 == st.seen \cup {p.id} IN
              IF i = Len(posts) /\ end = "raise_extract"
              THEN [seen |-> seen2, recs |-> st.recs, raised |-> TRUE]
              ELSE IF AcceptGeneral(p, art, loc)
              THEN ConsumeGeneral(posts, i + 1,
                       [st EXCEPT !.seen = seen2, !.recs = AddRecord(st.recs, PostRecords[p.id])],
                       end, art, loc)
              ELSE ConsumeGeneral(posts, i + 1, [st EXCEPT !.seen = seen2], end, art, loc)

\* A handler that throws away what the failing query had added.
AfterQueryDiscarding(st, r) ==
    [seen |-> r.seen, recs |-> IF r.raised THEN st.recs ELSE r.recs,
     failed |-> st.failed \/ r.raised]

\* What a channel's iteration carries from one query to the next: the inner
\* `except Exception as search_error: ... continue` leaves subreddit_results
\* and seen_posts as the query left them, failed or not.
AfterQuery(st, r) ==
    [seen |-> r.seen, recs |-> r.recs, failed |-> st.failed \/ r.raised]

\* The `for search_query in search_terms[:3]` loop: st = [seen, recs, failed].
RECURSIVE RunQueries(_, _, _, _, _)
RunQueries(behs, j, st, art, loc) ==
    IF j > Len(behs) THEN st
    ELSE LET r == ConsumeGeneral(behs[j].posts, 1,
                      [seen |-> st.seen, recs |-> st.recs, raised |-> FALSE],
                      behs[j].end, art, loc)
         IN RunQueries(behs, j + 1, AfterQuery(st, r), art, loc)

\* A setlist loop that asked for relevance to the artist instead.
AcceptsByRelevance(m, p, art, loc) == IsRelevantPost(p, art, loc)

\* Acceptance of the setlist and edm loops.
Accepts(m, p, art, loc) ==
    IF m = "setlist" THEN AcceptSetlist(p) ELSE IsRelevantPost(p, art, loc)

\* The `for submission in subreddit.search(...)` loop of the setlist and edm
\* handlers; an exception leaves the loop: st = [recs, raised].
RECURSIVE ConsumeFiltered(_, _, _, _, _, _, _)
ConsumeFiltered(posts, i, st, end, m, art, loc) ==
    IF i > Len(posts) THEN [st EXCEPT !.raised = (end = "raise")]
    ELSE LET p == posts[i] IN
         IF Accepts(m, p, art, loc)
         THEN IF i = Len(posts) /\ end = "raise_extract"
              THEN [st EXCEPT !.raised = TRUE]
              ELSE ConsumeFiltered(posts, i + 1,
                       [st EXCEPT !.recs = Append(st.recs, PostRecords[p.id])],
                       end, m, art, loc)
         ELSE ConsumeFiltered(posts, i + 1, st, end, m, art, loc)

\* search_query of the setlist handlers.
SetlistQuery(art, venue) ==
    LET q == Join(art, SetlistWord) IN IF venue # <<>> THEN Join(q, venue) ELSE q

\* search_query of the edm handlers.
EdmQuery(art, festival, loc) ==
    LET q1 == IF festival # <<>> THEN Join(art, festival) ELSE art
    IN  IF loc # <<>> THEN Join(q1, loc) ELSE q1

\* ------------------------------------------------------------------ state
VARIABLES
    request,             \* the `artist` field as it arrived
    reddit,              \* scraper.reddit is set (the provider connection exists)
    pc,                  \* "idle", "general", "setlist", "edm", "done"
    impl,                \* "main" (HTTP application) or "mcp" (tool server)
    mode,                \* entry point: "general", "setlist", "edm", "dates"
    artist,              \* artist after parsing
    location,            \* location after parsing (<<>> when None)
    extra,               \* venue (setlist) or festival (edm) (<<>> when None)
    ci,                  \* index of the next channel of the channel list
    results,             \* the `results` dict, in insertion order
    seen_posts,          \* the `seen_posts` set of search_concerts
    search_query_bound,  \* the local `search_query` of search_concerts is bound
    calls,               \* provider searches issued, in order
    yielded,             \* per channel index, the identifiers the provider yielded
    failed,              \* channel indices at which an exception was raised
    nYield,              \* posts yielded so far
    nFail,               \* failures so far
    outcome,             \* of the orchestration: "none", "mapping", "config_error", "raised"
    response,            \* of the front-end: "none", "ok", "empty", "no_dates",
                         \* "validation_error", "config_error", "error"
    fn,                  \* the function under evaluation ("none" during a request)
    arg,                 \* its arguments
    ret,                 \* its return value
    callNo,              \* 1 during a first call of search_concerts, 2 during its repetition
    world,               \* when calls are repeated: what the provider answers, per channel
    first,               \* what the first call returned
    qi,                  \* when a search is followed step by step: index of the next query
    subreddit_results,   \* the `subreddit_results` list of the channel in progress
    pending,             \* what the search in progress has still to yield
    inflight             \* searches issued and neither exhausted nor failed

vars == <<request, reddit, pc, impl, mode, artist, location, extra, ci, results, seen_posts,
          search_query_bound, calls, yielded, failed, nYield, nFail, outcome, response,
          fn, arg, ret, callNo, world, first, qi, subreddit_results, pending, inflight>>

\* The variables of a search followed step by step.
stepVars == <<qi, subreddit_results, pending, inflight>>

\* What a request leaves alone.
auxVars == <<fn, arg, ret, callNo, world, first, stepVars>>

MaxChannels == Len(CONCERT_SUBREDDITS)

Channels(m) ==
    CASE m = "setlist" -> setlist_subreddits
      [] m = "edm" -> edm_subreddits
      [] OTHER -> CONCERT_SUBREDDITS

\* No request has been received.
NoRequest ==
    /\ request = [kind |-> "none", text |-> <<>>]
    /\ pc = "idle"
    /\ impl = "none"
    /\ mode = "none"
    /\ artist = <<>>
    /\ location = <<>>
    /\ extra = <<>>
    /\ ci = 1
    /\ results = <<>>
    /\ seen_posts = {}
    /\ search_query_bound = FALSE
    /\ calls = <<>>
    /\ yielded = [c \in 1..MaxChannels |-> {}]
    /\ failed = {}
    /\ nYield = 0
    /\ nFail = 0
    /\ outcome = "none"
    /\ response = "none"

\* No function is under evaluation.
NoEvaluation ==
    /\ fn = "none"
    /\ arg = <<>>
    /\ ret = <<>>

\* After construction: _initialize_reddit either set self.reddit or left it None.
\* No call has been repeated.
NoRepetition ==
    /\ callNo = 1
    /\ world = <<>>
    /\ first = <<>>

\* No search is in progress.
NoStep ==
    /\ qi = 1
    /\ subreddit_results = <<>>
    /\ pending = <<>>
    /\ inflight = {}

Init ==
    /\ reddit \in BOOLEAN
    /\ NoRequest
    /\ NoEvaluation
    /\ NoRepetition
    /\ NoStep

loopVars == <<ci, results, seen_posts, search_query_bound, calls, yielded, failed, nYield, nFail>>

\* The request ends at the front-end with response r.
Finish(a, i, m, art, loc, ex, out, r) ==
    /\ request' = a
    /\ pc' = "done"
    /\ impl' = i
    /\ mode' = m
    /\ artist' = art
    /\ location' = loc
    /\ extra' = ex
    /\ outcome' = out
    /\ response' = r
    /\ UNCHANGED <<reddit, loopVars, auxVars>>

\* The request enters a channel loop.
Enter(a, i, m, art, loc, ex, loop) ==
    /\ request' = a
    /\ pc' = loop
    /\ impl' = i
    /\ mode' = m
    /\ artist' = art
    /\ location' = loc
    /\ extra' = ex
    /\ UNCHANGED <<reddit, loopVars, outcome, response, auxVars>>

\* search_concerts up to its loop: the connection check.
CallSearchConcerts(a, i, m, art, loc) ==
    IF ~reddit
    THEN Finish(a, i, m, art, loc, <<>>, "config_error", "config_error")
    ELSE Enter(a, i, m, art, loc, <<>>, "general")

\* ------------------------------------------------------------------ entry points
\* main.py, route /api/search
HttpSearch ==
    /\ pc = "idle"
    /\ \E a \in ArtistInputs, l \in LocationInputs :
         IF a.kind = "null"
         THEN Finish(a, "main", "general", <<>>, <<>>, <<>>, "none", "error")
         ELSE LET art == Strip(a.text)
                  loc == Strip(l)
              IN  IF ArtistMissing(art)
                  THEN Finish(a, "main", "general", art, loc, <<>>, "none", "validation_error")
                  ELSE CallSearchConcerts(a, "main", "general", art, loc)

\* main.py, route /api/setlist
HttpSetlist ==
    /\ pc = "idle"
    /\ \E a \in ArtistInputs, v \in VenueInputs :
         IF a.kind = "null"
         THEN Finish(a, "main", "setlist", <<>>, <<>>, <<>>, "none", "error")
         ELSE LET art == Strip(a.text)
                  venue == Strip(v)
              IN  IF ArtistMissing(art)
                  THEN Finish(a, "main", "setlist", art, <<>>, venue, "none", "validation_error")
                  ELSE Enter(a, "main", "setlist", art, <<>>, venue, "setlist")

\* main.py, route /api/edm
HttpEdm ==
    /\ pc = "idle"
    /\ \E a \in ArtistInputs, f \in FestivalInputs, l \in LocationInputs :
         IF a.kind = "null"
         THEN Finish(a, "main", "edm", <<>>, <<>>, <<>>, "none", "error")
         ELSE LET art == Strip(a.text)
                  festival == Strip(f)
                  loc == Strip(l)
              IN  IF ArtistMissing(art)
                  THEN Finish(a, "main", "edm", art, loc, festival, "none", "validation_error")
                  ELSE Enter(a, "main", "edm", art, loc, festival, "edm")

\* mcp_server.py, call_tool "search_concerts"
ToolSearch ==
    /\ pc = "idle"
    /\ \E a \in ArtistInputs, l \in LocationInputs :
         IF ArtistMissing(a.text)
         THEN Finish(a, "mcp", "general", a.text, l, <<>>, "none", "validation_error")
         ELSE CallSearchConcerts(a, "mcp", "general", a.text, l)

\* mcp_server.py, call_tool "get_setlist_info"
ToolSetlist ==
    /\ pc = "idle"
    /\ \E a \in ArtistInputs, v \in VenueInputs :
         IF ArtistMissing(a.text)
         THEN Finish(a, "mcp", "setlist", a.text, <<>>, v, "none", "validation_error")
         ELSE Enter(a, "mcp", "setlist", a.text, <<>>, v, "setlist")

\* mcp_server.py, call_tool "search_edm_events"
ToolEdm ==
    /\ pc = "idle"
    /\ \E a \in ArtistInputs, f \in FestivalInputs, l \in LocationInputs :
         IF ArtistMissing(a.text)
         THEN Finish(a, "mcp", "edm", a.text, l, f, "none", "validation_error")
         ELSE Enter(a, "mcp", "edm", a.text, l, f, "edm")

\* mcp_server.py, call_tool "get_concert_dates"
ToolDates ==
    /\ pc = "idle"
    /\ \E a \in ArtistInputs, l \in LocationInputs :
         IF ArtistMissing(a.text)
         THEN Finish(a, "mcp", "dates", a.text, l, <<>>, "none", "validation_error")
         ELSE CallSearchConcerts(a, "mcp", "dates", a.text, l)

\* ------------------------------------------------------------------ search_concerts
\* One iteration of `for subreddit_name in CONCERT_SUBREDDITS` in which
\* self.reddit.subreddit(...) raises: the outer `except Exception as e`.
\* The handler of mcp_server.py formats `search_query`, a local that is bound
\* only once some channel has reached its query loop.
AcquireFailsStep ==
    /\ nFail' = nFail + 1
    /\ failed' = failed \cup {ci}
    /\ IF impl = "mcp" /\ ~search_query_bound
       THEN /\ pc' = "done"
            /\ outcome' = "raised"
            /\ response' = "error"
            /\ ci' = ci
       ELSE /\ ci' = ci + 1
            /\ UNCHANGED <<pc, outcome, response>>
    /\ UNCHANGED <<auxVars, request, reddit, impl, mode, artist, location, extra, results, seen_posts,
                   search_query_bound, calls, yielded, nYield>>

\* The iteration, while the provider may still fail.
GeneralAcquireFails ==
    /\ pc = "general"
    /\ ci <= Len(CONCERT_SUBREDDITS)
    /\ nFail < MaxFail
    /\ AcquireFailsStep

\* One iteration of `for subreddit_name in CONCERT_SUBREDDITS` whose channel
\* is acquired: the searches of search_terms[:3], deduplicated, then the store.
SearchChannelStep(behs) ==
    /\ LET name == CONCERT_SUBREDDITS[ci]
           queries == Take(GenerateSearchTerms(artist, location), QueryLimit)
           fin == RunQueries(behs, 1,
                      [seen |-> FreshSeen(seen_posts), recs |-> <<>>, failed |-> FALSE],
                      artist, location)
       IN  /\ results' = StoreChannel(results, name, fin.recs)
           /\ seen_posts' = fin.seen
           /\ search_query_bound' = TRUE
           /\ calls' = calls \o [j \in 1..Len(queries) |->
                                   [channel |-> ci, qi |-> j, query |-> queries[j]]]
           /\ yielded' = [yielded EXCEPT ![ci] = @ \cup YieldedIds(behs)]
           /\ failed' = IF fin.failed THEN failed \cup {ci} ELSE failed
           /\ nYield' = nYield + SumYield(behs, 1)
           /\ nFail' = nFail + SumFail(behs, 1)
    /\ ci' = ci + 1
    /\ UNCHANGED <<auxVars, request, reddit, pc, impl, mode, artist, location, extra, outcome, response>>

\* The iteration, for whatever the provider answers within the budget.
GeneralSearchChannel ==
    /\ pc = "general"
    /\ ci <= Len(CONCERT_SUBREDDITS)
    /\ \E behs \in Behaviours(QueryLimit, MaxYield - nYield, MaxFail - nFail) :
         SearchChannelStep(behs)

\* `return results`, and what the front-end makes of it.
GeneralReturn ==
    /\ pc = "general"
    /\ ci > Len(CONCERT_SUBREDDITS)
    /\ pc' = "done"
    /\ outcome' = "mapping"
    /\ response' = IF impl = "mcp" /\ results = <<>> THEN "empty"
                   ELSE IF mode = "dates" /\ DateListing(results) = <<>> THEN "no_dates"
                   ELSE "ok"
    /\ UNCHANGED <<auxVars, request, reddit, impl, mode, artist, location, extra, loopVars>>

\* ------------------------------------------------------------------ setlist and edm handlers
\* One iteration in which reddit_scraper.reddit.subreddit(...) raises (always,
\* when reddit is None): `except Exception as e: continue`.
ModeAcquireFailsStep ==
    /\ nFail' = IF reddit THEN nFail + 1 ELSE nFail
    /\ failed' = failed \cup {ci}
    /\ ci' = ci + 1
    /\ UNCHANGED <<auxVars, request, reddit, pc, impl, mode, artist, location, extra, results, seen_posts,
                   search_query_bound, calls, yielded, nYield, outcome, response>>

\* The iteration, while the provider may still fail.
ModeAcquireFails ==
    /\ pc \in {"setlist", "edm"}
    /\ ci <= Len(Channels(mode))
    /\ ~reddit \/ nFail < MaxFail
    /\ ModeAcquireFailsStep

\* A store that keeps what a failed search had gathered.
StoreDespiteFailure(res, name, fin) == StoreChannel(res, name, fin.recs)

\* The store is the last statement of the try block: an exception raised
\* before it, by the search or in the loop body, goes to `except Exception as
\* e: continue` and the channel is not stored.
StoreUnlessRaised(res, name, fin) ==
    IF fin.raised THEN res ELSE StoreChannel(res, name, fin.recs)

\* One iteration whose channel is acquired: a single search, filtered; an
\* exception anywhere in it skips the channel.
ModeSearchStep(b) ==
    /\ LET name == Channels(mode)[ci]
           query == IF mode = "setlist" THEN SetlistQuery(artist, extra)
                    ELSE EdmQuery(artist, extra, location)
           fin == ConsumeFiltered(b.posts, 1, [recs |-> <<>>, raised |-> FALSE],
                                  b.end, mode, artist, location)
       IN  /\ results' = StoreUnlessRaised(results, name, fin)
           /\ calls' = Append(calls, [channel |-> ci, qi |-> 1, query |-> query])
           /\ yielded' = [yielded EXCEPT ![ci] = @ \cup YieldedIds(<<b>>)]
           /\ failed' = IF fin.raised THEN failed \cup {ci} ELSE failed
           /\ nYield' = nYield + Len(b.posts)
           /\ nFail' = nFail + Fails(b)
    /\ ci' = ci + 1
    /\ UNCHANGED <<auxVars, request, reddit, pc, impl, mode, artist, location, extra, seen_posts,
                   search_query_bound, outcome, response>>

\* The iteration, for whatever the provider answers within the budget.
ModeSearchChannel ==
    /\ pc \in {"setlist", "edm"}
    /\ ci <= Len(Channels(mode))
    /\ reddit
    /\ \E b \in QueryOutcomes(MaxYield - nYield, MaxFail - nFail) : ModeSearchStep(b)

\* The response after the loop.
ModeReturn ==
    /\ pc \in {"setlist", "edm"}
    /\ ci > Len(Channels(mode))
    /\ pc' = "done"
    /\ outcome' = "mapping"
    /\ response' = IF impl = "mcp" /\ results = <<>> THEN "empty" ELSE "ok"
    /\ UNCHANGED <<auxVars, request, reddit, impl, mode, artist, location, extra, loopVars>>

Next ==
    \/ HttpSearch
    \/ HttpSetlist
    \/ HttpEdm
    \/ ToolSearch
    \/ ToolSetlist
    \/ ToolEdm
    \/ ToolDates
    \/ GeneralAcquireFails
    \/ GeneralSearchChannel
    \/ GeneralReturn
    \/ ModeAcquireFails
    \/ ModeSearchChannel
    \/ ModeReturn

Spec == Init /\ [][Next]_vars

\* ------------------------------------------------------------------ properties
GeneralMode == mode \in {"general", "dates"}
FilterMode == mode \in {"setlist", "edm"}

\* The orchestration returned its mapping.
Returned == pc = "done" /\ outcome = "mapping"

\* The identifiers of a record list, and whether none occurs twice.
Ids(recs) == { RecId(recs[k]) : k \in 1..Len(recs) }
NoDup(recs) == \A i, j \in 1..Len(recs) : i # j => RecId(recs[i]) # RecId(recs[j])

\* The record list the mapping holds for a channel name (empty when absent).
RecsOf(name) ==
    IF \E k \in 1..Len(results) : results[k].name = name
    THEN results[CHOOSE k \in 1..Len(results) : results[k].name = name].posts
    ELSE <<>>

\* How many records of the whole mapping carry identifier id.
Occurrences(id) ==
    Cardinality({ <<k, i>> \in (1..Len(results)) \X (1..(MaxYield + 1)) :
                    i <= Len(results[k].posts) /\ RecId(results[k].posts[i]) = id })

\* C1: in a general-mode search every channel's record list holds each result
\* identifier at most once, however often the provider yielded it for that
\* channel; in particular when search_concerts returns.
C1_NoDuplicateInChannel ==
    GeneralMode => \A k \in 1..Len(results) : NoDup(results[k].posts)

\* C1 witness: a returned general-mode mapping in which the provider yielded
\* twice, both times the same identifier for the same channel, and that
\* channel holds one record.
C1_Witness ==
    /\ Returned /\ GeneralMode
    /\ nYield = 2
    /\ \E c \in 1..Len(CONCERT_SUBREDDITS) :
         /\ Cardinality(yielded[c]) = 1
         /\ \A d \in 1..Len(CONCERT_SUBREDDITS) : d # c => yielded[d] = {}
         /\ Len(RecsOf(CONCERT_SUBREDDITS[c])) = 1

\* Channel c of the general-mode list was searched without any exception.
Succeeded(c) == c \notin failed

\* C2: with the provider connection present, a general-mode search_concerts
\* whose channel acquisition or search fails at any channel (the first
\* included) neither raises nor returns an error: it returns a mapping, all
\* ten channels were iterated, and every channel that raised nothing holds
\* exactly the records of what the provider yielded for it.
C2_FailureSkipsOnlyThatChannel ==
    (pc = "done" /\ GeneralMode /\ reddit /\ outcome # "none") =>
        /\ outcome = "mapping"
        /\ ci = Len(CONCERT_SUBREDDITS) + 1
        /\ \A c \in 1..Len(CONCERT_SUBREDDITS) :
             Succeeded(c) => Ids(RecsOf(CONCERT_SUBREDDITS[c])) = yielded[c]

\* C3: with the provider connection absent, every orchestrator call of every
\* mode ends with the configuration error, having iterated no channel and
\* issued no provider search.
C3_AbsentConnectionIsConfigError ==
    (pc = "done" /\ ~reddit /\ response \notin {"validation_error", "error"}) =>
        /\ outcome = "config_error"
        /\ response = "config_error"
        /\ ci = 1
        /\ calls = <<>>

\* C4: in every mode the mapping never maps a channel to an empty record
\* list, at any point of the orchestration and so when it returns.
C4_NoEmptyChannel ==
    \A k \in 1..Len(results) : results[k].posts # <<>>

\* C4 witness: a returned setlist or edm mapping in which a channel raised
\* nothing, the provider yielded posts for it, all were rejected, and the
\* channel is absent from the mapping.
C4_Witness ==
    /\ Returned /\ FilterMode
    /\ \E c \in 1..Len(Channels(mode)) :
         /\ yielded[c] # {}
         /\ Succeeded(c)
         /\ \A k \in 1..Len(results) : results[k].name # Channels(mode)[c]

\* C5 as stated: within one general-mode orchestration call an identifier
\* appears in at most one record of the whole returned mapping, over all
\* channels.
C5_GloballyUnique ==
    (Returned /\ GeneralMode) => \A i \in 1..NumPosts : Occurrences(i) <= 1

\* C5 as amended: the seen-set is scoped to one channel of the call.  In a
\* returned general-mode mapping an identifier occurs at most once in each
\* channel's list, and every channel that raised nothing holds a record for
\* each identifier the provider yielded for it, also when an earlier channel
\* already holds a record with that identifier.
C5_SeenSetPerChannel ==
    (Returned /\ GeneralMode) =>
        \A c \in 1..Len(CONCERT_SUBREDDITS) :
            /\ NoDup(RecsOf(CONCERT_SUBREDDITS[c]))
            /\ Succeeded(c) => yielded[c] \subseteq Ids(RecsOf(CONCERT_SUBREDDITS[c]))

\* C5 witness: a returned general-mode mapping in which two channels each
\* hold a record with the same identifier.
C5_Witness ==
    /\ Returned /\ GeneralMode
    /\ \E c, d \in 1..Len(CONCERT_SUBREDDITS) :
         /\ c < d
         /\ Ids(RecsOf(CONCERT_SUBREDDITS[c])) \cap Ids(RecsOf(CONCERT_SUBREDDITS[d])) # {}

\* C6: in setlist and edm modes a channel's record list holds each result
\* identifier at most once, even when the provider yields it more than once.
C6_NoDuplicateInFilterModes ==
    (Returned /\ FilterMode) => \A k \in 1..Len(results) : NoDup(results[k].posts)

\* C7: in general mode with no provider failure nothing is rejected on
\* content: each channel's records carry exactly the identifiers the provider
\* yielded for that channel.
C7_GeneralAcceptsEverything ==
    (Returned /\ GeneralMode /\ failed = {}) =>
        \A c \in 1..Len(CONCERT_SUBREDDITS) :
            Ids(RecsOf(CONCERT_SUBREDDITS[c])) = yielded[c]

\* C7 witness: a returned general-mode mapping, no failure, that holds a
\* record whose title and body do not mention the artist.
C7_Witness ==
    /\ Returned /\ GeneralMode /\ failed = {}
    /\ \E k \in 1..Len(results) : \E i \in 1..Len(results[k].posts) :
         LET rec == results[k].posts[i] IN
         ~Contains(Lower(Join(rec.title, rec.text)), Lower(artist))

\* The artist field of the request is missing or empty.
ArtistMissingOrEmpty ==
    \/ request.kind = "missing"
    \/ request.kind = "text" /\ request.text = <<>>

\* C8: a request whose artist is missing or empty ends at once with the
\* validation error, in every entry point, with no channel iterated and no
\* provider search issued.
C8_MissingArtistRejected ==
    ArtistMissingOrEmpty =>
        /\ pc = "done"
        /\ response = "validation_error"
        /\ outcome = "none"
        /\ ci = 1
        /\ calls = <<>>

\* C8 witness: the date-listing tool rejected a request without artist while
\* the provider connection was present.
C8_Witness ==
    /\ ArtistMissingOrEmpty
    /\ reddit
    /\ mode = "dates"
    /\ response = "validation_error"

\* No two logged provider searches are for the same (channel, query position).
NoRepeatedCall ==
    \A i, j \in 1..Len(calls) :
        i # j => <<calls[i].channel, calls[i].qi>> # <<calls[j].channel, calls[j].qi>>

\* C9: the provider searches of one request number at most 30 in general
\* mode (one per channel and query position 1..3 over the 10 channels), at
\* most 5 in setlist mode and at most 6 in edm mode (one per channel), and
\* none is issued twice, failed or not.
C9_BoundedCalls ==
    /\ NoRepeatedCall
    /\ GeneralMode =>
         /\ Len(calls) <= 30
         /\ \A i \in 1..Len(calls) : calls[i].qi \in 1..3 /\ calls[i].channel \in 1..10
    /\ mode = "setlist" =>
         /\ Len(calls) <= 5
         /\ \A i \in 1..Len(calls) : calls[i].qi = 1
    /\ mode = "edm" =>
         /\ Len(calls) <= 6
         /\ \A i \in 1..Len(calls) : calls[i].qi = 1

\* C9 witness: a returned general-mode search in which a provider search
\* raised and the searches issued number exactly 30.
C9_Witness ==
    /\ Returned /\ GeneralMode
    /\ failed # {}
    /\ Len(calls) = 30

\* C10 as stated: every record stored under key c has channelName c.
C10_KeyIsRecordChannelName ==
    Returned =>
        \A k \in 1..Len(results) : \A i \in 1..Len(results[k].posts) :
            results[k].posts[i].subreddit = results[k].name

\* C10 as amended: results are grouped by the name of the channel searched.
\* Every key of the mapping is a name of the mode's channel list, every
\* record under it was assembled from a post the provider yielded for a search
\* of that channel, and the record's channelName is the name the provider
\* reported on that post.
C10_KeyIsSearchedChannel ==
    \A k \in 1..Len(results) :
        \E c \in 1..Len(Channels(mode)) :
            /\ Channels(mode)[c] = results[k].name
            /\ \A i \in 1..Len(results[k].posts) :
                 LET rec == results[k].posts[i] IN
                 /\ RecId(rec) \in yielded[c]
                 /\ rec.subreddit = PostOf(RecId(rec)).display_name

\* C10 witness: a returned mapping holding a record whose channelName differs
\* from its key only in letter case.
C10_Witness ==
    /\ Returned
    /\ \E k \in 1..Len(results) : \E i \in 1..Len(results[k].posts) :
         /\ results[k].posts[i].subreddit # results[k].name
         /\ Lower(results[k].posts[i].subreddit) = Lower(results[k].name)

\* ------------------------------------------------------------------ evaluation of the pure functions
\* Words per title.
MaxWords == 2

\* Words of a post: the artist, the location, two keywords, a neutral word.
Words == { <<"x">>, <<"X">>, <<"y">>, <<"q">>, <<"g", "i", "g">>, <<"N", "E", "W">> }

RECURSIVE JoinWords(_)
JoinWords(ws) ==
    IF ws = <<>> THEN <<>>
    ELSE IF Len(ws) = 1 THEN ws[1]
    ELSE Join(ws[1], JoinWords(Tail(ws)))

Texts(n) == { JoinWords(ws) : ws \in SeqsUpTo(Words, n) }

\* submission.subreddit.display_name
DisplayNames == { <<"E", "D", "M">>, <<"a", "v", "e", "s">>, <<"U", "M", "F">>,
                  <<"u", "m", "f">>, <<"M", "u", "s", "i", "c">> }

Submissions == [ title : Texts(MaxWords), selftext : Texts(1), display_name : DisplayNames ]

ArtistNames == { <<"x">>, <<"X">>, <<"q", " ", "x">> }
LocationNames == { <<>>, <<"y">>, <<"Y">> }

RelevanceArgs == [ submission : Submissions, artist : ArtistNames, location : LocationNames ]

\* The variables of a request.
requestVars == <<request, reddit, pc, impl, mode, artist, location, extra, outcome, response,
                 loopVars>>

repeatVars == <<callNo, world, first, stepVars>>

\* A call of _is_relevant_post returns.
EvalIsRelevantPost ==
    /\ fn = "_is_relevant_post"
    /\ ret = <<>>
    /\ ret' = <<IsRelevantPost(arg.submission, arg.artist, arg.location)>>
    /\ UNCHANGED <<fn, arg, requestVars, repeatVars>>

\* The call has returned.
Evaluated(f) == fn = f /\ ret # <<>>

\* The text _is_relevant_post searches.
SearchedText == Lower(Join(arg.submission.title, arg.submission.selftext))

\* C11: _is_relevant_post returns false whenever the case-folded artist is not
\* a substring of the case-folded title + " " + body, whatever the location, the
\* keywords present and the channel.
C11_NoArtistNotRelevant ==
    (Evaluated("_is_relevant_post") /\ ~Contains(SearchedText, Lower(arg.artist)))
        => ret[1] = FALSE

\* C11 witness: a post of an always-relevant channel that holds a keyword but
\* not the artist was rejected.
C11_Witness ==
    /\ Evaluated("_is_relevant_post")
    /\ ~Contains(SearchedText, Lower(arg.artist))
    /\ Contains(SearchedText, <<"g", "i", "g">>)
    /\ Lower(arg.submission.display_name) = <<"u", "m", "f">>
    /\ ret[1] = FALSE

\* The case-folded names of the always-relevant channels, as C19 lists them.
AlwaysRelevantFolded == {
    <<"c", "o", "n", "c", "e", "r", "t">>,
    <<"e", "d", "m">>,
    <<"l", "i", "v", "e", "m", "u", "s", "i", "c">>,
    <<"u", "m", "f">>,
    <<"s", "e", "t", "l", "i", "s", "t">>,
    <<"f", "e", "s", "t", "i", "v", "a", "l", "s">> }

HasKeyword == \E k \in 1..Len(concert_keywords) : Contains(SearchedText, concert_keywords[k])

\* C19: _is_relevant_post returns true exactly when the case-folded artist is a
\* substring of the case-folded text, and the location is absent or empty or
\* its case-folded form is a substring, and one of the 25 keywords is a
\* substring or the case-folded channel name is one of concert, edm,
\* livemusic, umf, setlist, festivals.
C19_RelevantExactlyWhen ==
    Evaluated("_is_relevant_post") =>
        /\ Len(concert_keywords) = 25
        /\ ret[1] = ( /\ Contains(SearchedText, Lower(arg.artist))
                      /\ (arg.location = <<>> \/ Contains(SearchedText, Lower(arg.location)))
                      /\ (HasKeyword \/ Lower(arg.submission.display_name) \in AlwaysRelevantFolded) )

\* C19 witness: a post without keyword was accepted for its channel alone, the
\* artist and the location matching in another letter case.
C19_Witness ==
    /\ Evaluated("_is_relevant_post")
    /\ ret[1] = TRUE
    /\ ~HasKeyword
    /\ arg.submission.display_name = <<"U", "M", "F">>
    /\ arg.location = <<"Y">>
    /\ ~Contains(Join(arg.submission.title, arg.submission.selftext), arg.location)
    /\ ~Contains(Join(arg.submission.title, arg.submission.selftext), arg.artist)

\* ------------------------------------------------------------------ _generate_search_terms
GenerateArgs == [ artist : ArtistNames \cup { <<"a", "b">> }, location : LocationNames ]

\* A call of _generate_search_terms returns.
EvalGenerateSearchTerms ==
    /\ fn = "_generate_search_terms"
    /\ ret = <<>>
    /\ ret' = <<GenerateSearchTerms(arg.artist, arg.location)>>
    /\ UNCHANGED <<fn, arg, requestVars, repeatVars>>

\* C12: without a location (None or empty) the generator returns exactly 13
\* terms: the artist, then for each of the 6 vocabulary terms, in vocabulary
\* order, "artist term" then "term artist".
C12_ThirteenTermsWithoutLocation ==
    (Evaluated("_generate_search_terms") /\ arg.location = <<>>) =>
        /\ Len(concert_terms) = 6
        /\ Len(ret[1]) = 13
        /\ ret[1][1] = arg.artist
        /\ \A k \in 1..6 :
             /\ ret[1][2 * k] = arg.artist \o <<" ">> \o concert_terms[k]
             /\ ret[1][2 * k + 1] = concert_terms[k] \o <<" ">> \o arg.artist

\* C12 witness: the generator returned for a two-letter artist and no location.
C12_Witness ==
    /\ Evaluated("_generate_search_terms")
    /\ arg.location = <<>>
    /\ arg.artist = <<"a", "b">>
    /\ ret[1][13] = <<"l", "i", "v", "e", " ", "a", "b">>

\* C13 as stated: with a non-empty location the generator returns 37 terms.
C13_ThirtySevenTermsWithLocation ==
    (Evaluated("_generate_search_terms") /\ arg.location # <<>>) => Len(ret[1]) = 37

\* C13 as amended: with a non-empty location the generator returns exactly 27
\* terms: the artist, "artist location", "location artist", then for each of
\* the 6 vocabulary terms, in vocabulary order, "artist term", "term artist",
\* "artist term location", "location artist term".
C13_TwentySevenTermsWithLocation ==
    (Evaluated("_generate_search_terms") /\ arg.location # <<>>) =>
        LET a == arg.artist
            l == arg.location
            sp == <<" ">>
        IN  /\ Len(ret[1]) = 27
            /\ ret[1][1] = a
            /\ ret[1][2] = a \o sp \o l
            /\ ret[1][3] = l \o sp \o a
            /\ \A k \in 1..6 :
                 LET t == concert_terms[k] IN
                 /\ ret[1][4 * k] = a \o sp \o t
                 /\ ret[1][4 * k + 1] = t \o sp \o a
                 /\ ret[1][4 * k + 2] = a \o sp \o t \o sp \o l
                 /\ ret[1][4 * k + 3] = l \o sp \o a \o sp \o t

\* C13 witness: the generator returned for an artist and a location.
C13_Witness ==
    /\ Evaluated("_generate_search_terms")
    /\ arg.location = <<"Y">>
    /\ arg.artist = <<"x">>
    /\ ret[1][27] = <<"Y", " ", "x", " ", "l", "i", "v", "e">>

\* ------------------------------------------------------------------ _extract_concert_info
\* Characters of a body beyond selftext[:500].
MaxOver == 3

\* Phrases of a post that announces an event.
Phrases == {
    <<"S", "h", "o", "w", " ", "a", "t", " ", "9", ":", "3", "0", "p", "m", ",">>,
    <<"d", "o", "o", "r", "s", " ", "a", "t", " ", "8", ":", "0", "0">>,
    <<"J", "a", "n", "u", "a", "r", "y", " ", "5", ",", " ", "2", "0", "2", "4">>,
    <<"5", " ", "S", "e", "p", "t", " ", "2", "0", "2", "4">>,
    <<"1", "/", "2", "/", "2", "4">>,
    <<"2", "0", "2", "4", "-", "0", "1", "-", "0", "5">>,
    <<"7", " ", "P", "M">>,
    <<"x">>,
    <<"m", "a", "y", " ", "1", "2", " ", "2", "0", "2", "5">> }

PhraseTexts(n) == { JoinWords(ws) : ws \in SeqsUpTo(Phrases, n) }

\* A body of n characters, the last one d.
Body(n, d) == [i \in 1..n |-> IF i = n THEN d ELSE "a"]

BodyLengths == {0, 1} \cup ((PreviewLen - 1)..(PreviewLen + MaxOver))

LongBodies == { Body(n, d) : n \in BodyLengths, d \in {"a", "."} }

\* Submissions with short announcing texts, and submissions with long bodies.
ExtractArgs ==
    [ title : PhraseTexts(MaxWords), selftext : PhraseTexts(1), permalink : {1},
      display_name : { <<"E", "D", "M">> } ]
    \cup [ title : { <<"x">> }, selftext : LongBodies, permalink : {1},
           display_name : { <<"E", "D", "M">> } ]

\* A call of _extract_concert_info returns.
EvalExtractConcertInfo ==
    /\ fn = "_extract_concert_info"
    /\ ret = <<>>
    /\ ret' = <<ExtractConcertInfo(arg)>>
    /\ UNCHANGED <<fn, arg, requestVars, repeatVars>>

\* C14: the body preview is never longer than 503 characters; a body of at
\* most 500 characters is kept unchanged, a longer one becomes its first 500
\* characters followed by "..." (503 characters).
C14_PreviewBounded ==
    Evaluated("_extract_concert_info") =>
        LET body == arg.selftext
            preview == ret[1].text
        IN  /\ Len(preview) <= 503
            /\ Len(body) <= 500 => preview = body
            /\ Len(body) > 500 =>
                 /\ Len(preview) = 503
                 /\ SubSeq(preview, 1, 500) = SubSeq(body, 1, 500)
                 /\ SubSeq(preview, 501, 503) = <<".", ".", ".">>

\* C14 witness: a body of 502 characters was cut, and a record was assembled
\* from it.
C14_Witness ==
    /\ Evaluated("_extract_concert_info")
    /\ Len(arg.selftext) = 502
    /\ arg.selftext[502] = "."
    /\ Len(ret[1].text) = 503

\* The title of the doors-and-show scenario, with an empty body.
ShowTitle ==
    <<"S", "h", "o", "w", " ", "a", "t", " ", "9", ":", "3", "0", "p", "m", ",", " ", "d", "o", "o", "r", "s", " ", "a", "t", " ", "8", ":", "0", "0">>

ShowScenario ==
    /\ Evaluated("_extract_concert_info")
    /\ arg.title = ShowTitle
    /\ arg.selftext = <<>>

\* C15 as stated: for the title "Show at 9:30pm, doors at 8:00" and an empty
\* body, timesFound is exactly ["9:30pm", "8:00"].
C15_TwoTimes ==
    ShowScenario => ret[1].times_found = << <<"9", ":", "3", "0", "p", "m">>, <<"8", ":", "0", "0">> >>

\* C15 as amended: for that title and an empty body, timesFound is exactly
\* ["9:30pm", "8:00 ", "30pm", "doors at 8:00", "Show at 9:30"]: the matches of
\* pattern 1 left to right (the second with the space that joins title and
\* body), then those of patterns 2, 3 and 4, nothing deduplicated.
C15_FiveTimes ==
    ShowScenario =>
        ret[1].times_found = <<
            <<"9", ":", "3", "0", "p", "m">>,
            <<"8", ":", "0", "0", " ">>,
            <<"3", "0", "p", "m">>,
            <<"d", "o", "o", "r", "s", " ", "a", "t", " ", "8", ":", "0", "0">>,
            <<"S", "h", "o", "w", " ", "a", "t", " ", "9", ":", "3", "0">> >>

\* C15 witness: the extractor returned for the scenario, with "9:30pm" first.
C15_Witness ==
    /\ ShowScenario
    /\ Len(ret[1].times_found) = 5
    /\ ret[1].times_found[1] = <<"9", ":", "3", "0", "p", "m">>

\* A date of datesFound is one of the date patterns matched in full.
WholeDate(d) ==
    \E p \in 1..Len(date_patterns) :
        LET m == MatchAt(date_patterns[p], Lower(d), 1) IN
        m.ok /\ m.end = Len(d) + 1

\* C16: every element of datesFound is a complete date substring that matches
\* one of the four date patterns in full; "January 5, 2024" yields that whole
\* string.
C16_DatesAreWholeMatches ==
    Evaluated("_extract_concert_info") =>
        /\ \A i \in 1..Len(ret[1].dates_found) : WholeDate(ret[1].dates_found[i])
        /\ (arg.title = <<"J", "a", "n", "u", "a", "r", "y", " ", "5", ",", " ", "2", "0", "2", "4">> /\ arg.selftext = <<>>)
             => ret[1].dates_found = << <<"J", "a", "n", "u", "a", "r", "y", " ", "5", ",", " ", "2", "0", "2", "4">> >>

\* ------------------------------------------------------------------ the functions, called on their own
\* ------------------------------------------------------------------ get_setlist, one result
\* Titles and bodies with and without the word, in several spellings.
SetlistWords ==
    { <<"x">>, <<"q">>, <<"s", "e", "t">>, <<"l", "i", "s", "t">>,
      <<"S", "e", "t", "l", "i", "s", "t">>,
      <<"S", "E", "T", "L", "I", "S", "T", "S">> }

SetlistTexts(n) == { JoinWords(ws) : ws \in SeqsUpTo(SetlistWords, n) }

SetlistSubmissions ==
    [ title : SetlistTexts(MaxWords), selftext : SetlistTexts(1),
      display_name : { <<"E", "D", "M">> } ]

SetlistArgs == [ submission : SetlistSubmissions, artist : ArtistNames, venue : VenueInputs ]

\* The get_setlist handler builds its query and decides on one result of the
\* provider.
EvalSetlistResult ==
    /\ fn = "get_setlist"
    /\ ret = <<>>
    /\ ret' = << [ query |-> SetlistQuery(arg.artist, arg.venue),
                   accepted |-> Accepts("setlist", arg.submission, arg.artist, <<>>) ] >>
    /\ UNCHANGED <<fn, arg, requestVars, repeatVars>>

\* The text holds the letters s-e-t-l-i-s-t in a row, in either case.
HasSetlist(text) ==
    \E k \in 0..(Len(text) - Len(SetlistWord)) :
        \A i \in 1..Len(SetlistWord) : LowerChar(text[k + i]) = SetlistWord[i]

\* C22: in setlist mode a provider result becomes a record if and only if
\* "setlist" is a substring of its case-folded title or of its case-folded
\* body, whatever the artist and the venue; these only make the query string,
\* artist + " setlist" followed by " " + venue when a venue is given.
C22_SetlistAcceptance ==
    Evaluated("get_setlist") =>
        /\ ret[1].accepted <=>
               (HasSetlist(arg.submission.title) \/ HasSetlist(arg.submission.selftext))
        /\ ret[1].query =
               arg.artist \o <<" ">> \o SetlistWord
                   \o (IF arg.venue = <<>> THEN <<>> ELSE <<" ">> \o arg.venue)

\* C22 witness: a result that names "SETLISTS" only in its body and the artist
\* nowhere was accepted, for a query with a venue.
C22_Witness ==
    /\ Evaluated("get_setlist")
    /\ arg.venue # <<>>
    /\ ~HasSetlist(arg.submission.title)
    /\ HasSetlist(arg.submission.selftext)
    /\ ~Contains(SearchedText, Lower(arg.artist))
    /\ ret[1].accepted

FunctionArgs(f) ==
    CASE f = "_is_relevant_post" -> RelevanceArgs
      [] f = "_generate_search_terms" -> GenerateArgs
      [] f = "_extract_concert_info" -> ExtractArgs
      [] f = "get_setlist" -> SetlistArgs

FunctionNames ==
    { "_is_relevant_post", "_generate_search_terms", "_extract_concert_info", "get_setlist" }

\* A scraper has been constructed and one of its functions is called.
InitFunctions ==
    /\ reddit \in BOOLEAN
    /\ NoRequest
    /\ \E f \in FunctionNames :
         /\ fn = f
         /\ arg \in FunctionArgs(f)
    /\ ret = <<>>
    /\ NoRepetition
    /\ NoStep

NextFunctions ==
    \/ EvalIsRelevantPost
    \/ EvalGenerateSearchTerms
    \/ EvalExtractConcertInfo
    \/ EvalSetlistResult

SpecFunctions == InitFunctions /\ [][NextFunctions]_vars

\* ------------------------------------------------------------------ the queries of a general search
ConcertWord == <<"c", "o", "n", "c", "e", "r", "t">>

\* The three queries C20 names.
NamedQueries ==
    IF location = <<>>
    THEN <<artist, artist \o <<" ">> \o ConcertWord, ConcertWord \o <<" ">> \o artist>>
    ELSE <<artist, artist \o <<" ">> \o location, location \o <<" ">> \o artist>>

\* C20: in general mode the queries executed per channel are exactly the first
\* 3 generated terms: [artist, "artist concert", "concert artist"] without a
\* location and [artist, "artist location", "location artist"] with one; the
\* first is always the bare artist.
C20_FirstThreeTerms ==
    GeneralMode =>
        \A k \in 1..Len(calls) :
            /\ calls[k].qi = ((k - 1) % 3) + 1
            /\ calls[k].query = NamedQueries[calls[k].qi]
            /\ k + (3 - calls[k].qi) <= Len(calls)
            /\ calls[k].qi > 1 => calls[k - 1].channel = calls[k].channel

\* C20 witness: a general search with a location returned after searching
\* every channel.
C20_Witness ==
    /\ Returned
    /\ GeneralMode
    /\ location # <<>>
    /\ \A c \in 1..Len(CONCERT_SUBREDDITS) : \E k \in 1..Len(calls) : calls[k].channel = c

\* ------------------------------------------------------------------ get_concert_dates, called on a mapping
\* Channels of a mapping.
DateChannels == 2
\* Records per channel of a mapping.
MaxListed == 2

\* Posts without a date, with one date, and with several.
DatePosts == <<
    [ title |-> <<"x">>,
      selftext |-> <<>>,
      permalink |-> 1, display_name |-> <<"E", "D", "M">> ],
    [ title |-> <<"2", "0", "2", "4", "-", "0", "1", "-", "0", "5", " ", "J", "a", "n", "u", "a", "r", "y", " ", "5", ",", " ", "2", "0", "2", "4", " ", "7", " ", "P", "M">>,
      selftext |-> <<>>,
      permalink |-> 2, display_name |-> <<"E", "D", "M">> ],
    [ title |-> <<"5", " ", "S", "e", "p", "t", " ", "2", "0", "2", "4", " ", "m", "a", "y", " ", "1", "2", " ", "2", "0", "2", "5">>,
      selftext |-> <<"1", "2", "/", "2", "5", "/", "2", "0", "2", "4", " ", "2", "0", "2", "4", "-", "0", "1", "-", "0", "5">>,
      permalink |-> 3, display_name |-> <<"E", "D", "M">> ] >>

DateRecords == [i \in 1..Len(DatePosts) |-> ExtractConcertInfo(DatePosts[i])]

\* A channel's list: records of distinct posts (search_concerts deduplicates).
RecordLists ==
    { [i \in 1..Len(s) |-> DateRecords[s[i]]] :
        s \in { t \in SeqsUpTo(1..Len(DatePosts), MaxListed) :
                  \A a \in 1..Len(t) : \A b \in 1..Len(t) : a # b => t[a] # t[b] } }

\* The mapping search_concerts returns for the per-channel lists f: channels
\* in list order, those without a record omitted.
RECURSIVE MappingOf(_, _)
MappingOf(f, c) ==
    IF c > DateChannels THEN <<>>
    ELSE (IF f[c] = <<>> THEN <<>> ELSE <<[name |-> CONCERT_SUBREDDITS[c], posts |-> f[c]]>>)
         \o MappingOf(f, c + 1)

DateListingArgs == { MappingOf(f, 1) : f \in [1..DateChannels -> RecordLists] }

\* get_concert_dates has its mapping and builds the listing.
EvalDateListing ==
    /\ fn = "get_concert_dates"
    /\ ret = <<>>
    /\ ret' = <<DateListing(arg)>>
    /\ UNCHANGED <<fn, arg, requestVars, repeatVars>>

\* The tool server holds the mapping of a general search.
InitDateListing ==
    /\ reddit = TRUE
    /\ NoRequest
    /\ fn = "get_concert_dates"
    /\ arg \in DateListingArgs
    /\ ret = <<>>
    /\ NoRepetition
    /\ NoStep

NextDateListing ==
    \/ EvalDateListing

SpecDateListing == InitDateListing /\ [][NextDateListing]_vars

\* The (channel, record, date occurrence) triples of the mapping.
Occurrence ==
    UNION { UNION { { <<k, i, j>> : j \in 1..Len(arg[k].posts[i].dates_found) } :
                    i \in 1..Len(arg[k].posts) } :
            k \in 1..Len(arg) }

EntryOf(o) ==
    LET post == arg[o[1]].posts[o[2]] IN
    [ date |-> post.dates_found[o[3]], title |-> post.title, subreddit |-> arg[o[1]].name,
      url |-> post.url, times |-> post.times_found ]

Shown(e) == Cardinality({ a \in 1..Len(ret[1]) : ret[1][a] = e })
Occurring(e) == Cardinality({ o \in Occurrence : EntryOf(o) = e })

\* C17: get_concert_dates makes one entry per (record, date occurrence) over
\* all channels of the mapping, orders the entries by non-decreasing lexical
\* order of the raw date string, and outputs at most the first 10: every entry
\* shown has a date lexically <= the date of every entry left out.
C17_FirstTenByDate ==
    Evaluated("get_concert_dates") =>
        /\ Len(ret[1]) = IF Cardinality(Occurrence) < 10 THEN Cardinality(Occurrence) ELSE 10
        /\ \A a \in 1..Len(ret[1]) : \A b \in a..Len(ret[1]) :
             ~StrLess(ret[1][b].date, ret[1][a].date)
        /\ \A a \in 1..Len(ret[1]) : Shown(ret[1][a]) <= Occurring(ret[1][a])
        /\ \A o \in Occurrence :
             Shown(EntryOf(o)) < Occurring(EntryOf(o)) =>
                 \A a \in 1..Len(ret[1]) : ~StrLess(EntryOf(o).date, ret[1][a].date)

\* C17 witness: a mapping of several channels with more than 10 date
\* occurrences was listed; dates of different formats are shown, and an entry
\* with a later date string was left out.
C17_Witness ==
    /\ Evaluated("get_concert_dates")
    /\ Len(arg) > 1
    /\ Cardinality(Occurrence) > 10
    /\ Len(ret[1]) = 10
    /\ StrLess(ret[1][1].date, ret[1][10].date)
    /\ \E o \in Occurrence :
         /\ Shown(EntryOf(o)) = 0
         /\ StrLess(ret[1][10].date, EntryOf(o).date)

\* ------------------------------------------------------------------ search_concerts, called twice
\* Channels for which the provider has posts or fails.
ActiveChannels == 2

\* A channel for which the provider has nothing.
Quiet == [acq |-> "ok", behs |-> [j \in 1..QueryLimit |-> [posts |-> <<>>, end |-> "ok"]]]

\* What the provider answers for the channels c.. of the list, being asked the
\* same questions: per channel, whether it can be acquired and what each of
\* its searches yields.
RECURSIVE Worlds(_, _, _)
Worlds(c, y, f) ==
    IF c > Len(CONCERT_SUBREDDITS) THEN { <<>> }
    ELSE IF c > ActiveChannels THEN { <<Quiet>> \o rest : rest \in Worlds(c + 1, y, f) }
    ELSE (IF f > 0
          THEN { <<[acq |-> "raise", behs |-> <<>>]>> \o rest : rest \in Worlds(c + 1, y, f - 1) }
          ELSE {})
         \cup UNION { { <<[acq |-> "ok", behs |-> behs]>> \o rest :
                          rest \in Worlds(c + 1, y - SumYield(behs, 1), f - SumFail(behs, 1)) } :
                      behs \in Behaviours(QueryLimit, y, f) }

\* A scraper with a connection, and a provider whose answers are fixed.
InitRepeat ==
    /\ reddit = TRUE
    /\ NoRequest
    /\ NoEvaluation
    /\ callNo = 1
    /\ world \in Worlds(1, MaxYield, MaxFail)
    /\ first = <<>>
    /\ NoStep

\* An iteration of the channel loop in which the channel cannot be acquired.
RepeatAcquireFails ==
    /\ pc = "general"
    /\ ci <= Len(CONCERT_SUBREDDITS)
    /\ world # <<>>
    /\ world[ci].acq = "raise"
    /\ AcquireFailsStep

\* An iteration of the channel loop for an acquired channel.
RepeatSearchChannel ==
    /\ pc = "general"
    /\ ci <= Len(CONCERT_SUBREDDITS)
    /\ world # <<>>
    /\ world[ci].acq = "ok"
    /\ SearchChannelStep(world[ci].behs)

\* search_concerts is called again with the same artist and location: its
\* locals are new (`results = {}`, `search_query` unbound), and nothing of the
\* scraper has changed.
SecondCall ==
    /\ pc = "done"
    /\ callNo = 1
    /\ outcome \in {"mapping", "raised"}
    /\ first' = [outcome |-> outcome, results |-> results]
    /\ callNo' = 2
    /\ pc' = "general"
    /\ ci' = 1
    /\ results' = <<>>
    /\ search_query_bound' = FALSE
    /\ calls' = <<>>
    /\ yielded' = [c \in 1..MaxChannels |-> {}]
    /\ failed' = {}
    /\ nYield' = 0
    /\ nFail' = 0
    /\ outcome' = "none"
    /\ response' = "none"
    /\ UNCHANGED <<request, reddit, impl, mode, artist, location, extra, seen_posts, fn, arg, ret, stepVars,
                   world>>

NextRepeat ==
    \/ HttpSearch
    \/ ToolSearch
    \/ RepeatAcquireFails
    \/ RepeatSearchChannel
    \/ GeneralReturn
    \/ SecondCall

SpecRepeat == InitRepeat /\ [][NextRepeat]_vars

\* The second call has ended.
Repeated == callNo = 2 /\ pc = "done"

\* C18: calls of search_concerts are independent: the dedup set is allocated
\* anew per call, so two successive general-mode calls with the same (artist,
\* location) and the same provider answers return equal mappings, and a record
\* returned by the first call is not suppressed in the second.
C18_CallsIndependent ==
    Repeated =>
        /\ outcome = first.outcome
        /\ results = first.results

\* C18 witness: both calls returned the same non-empty mapping, a post being
\* listed under two channels and one failure having occurred.
C18_Witness ==
    /\ Repeated
    /\ outcome = "mapping"
    /\ Len(results) = 2
    /\ results = first.results
    /\ RecId(results[1].posts[1]) = RecId(results[2].posts[1])
    /\ failed # {}

\* ------------------------------------------------------------------ a query that fails partway
\* The channels the running call has left behind it.
Processed(c) == pc # "idle" /\ c < ci

\* The provider's answer to query j of channel c.
Answer(c, j) == world[c].behs[j]

\* Whether the provider's answer to a query ends in a failure.
QueryFails(c, j) == Answer(c, j).end \in {"raise", "raise_extract"}

\* The i-th post of query j is the first the channel's queries yield with
\* that identifier.
FirstAt(c, j, i) ==
    \A j2 \in 1..QueryLimit : \A i2 \in 1..Len(Answer(c, j2).posts) :
        (j2 < j \/ (j2 = j /\ i2 < i)) =>
            Answer(c, j2).posts[i2].id # Answer(c, j).posts[i].id

\* The i-th post of query j was accepted: first of its identifier and not the
\* post whose assembly fails.
AcceptedAt(c, j, i) ==
    /\ FirstAt(c, j, i)
    /\ ~(i = Len(Answer(c, j).posts) /\ Answer(c, j).end = "raise_extract")

\* Query j of channel c was sent to the provider by the running call.
Queried(c, j) == \E k \in 1..Len(calls) : calls[k].channel = c /\ calls[k].qi = j

\* C21: in a general-mode search, for a channel one of whose queries fails
\* partway, every post accepted by any query of that channel (earlier queries,
\* the failing one before its failure, and the queries after it) is in the
\* channel's list of the mapping, and all of the channel's queries are sent.
C21_FailingQueryKeepsRecords ==
    \A c \in 1..Len(CONCERT_SUBREDDITS) :
        (world # <<>> /\ Processed(c) /\ world[c].acq = "ok"
            /\ \E j \in 1..QueryLimit : QueryFails(c, j)) =>
            /\ \A j \in 1..QueryLimit : Queried(c, j)
            /\ \A j \in 1..QueryLimit : \A i \in 1..Len(Answer(c, j).posts) :
                   AcceptedAt(c, j, i) =>
                       Answer(c, j).posts[i].id \in Ids(RecsOf(CONCERT_SUBREDDITS[c]))

\* The search returned; the first query of the first channel yielded a post
\* and then failed, a later query of the channel yielded another post, and
\* the mapping holds both.
C21_Witness ==
    /\ world # <<>> /\ Returned /\ world[1].acq = "ok"
    /\ Answer(1, 1).end = "raise" /\ Len(Answer(1, 1).posts) = 1
    /\ \E j \in 2..QueryLimit :
           /\ Len(Answer(1, j).posts) = 1
           /\ Answer(1, j).posts[1].id # Answer(1, 1).posts[1].id
    /\ Cardinality(Ids(RecsOf(CONCERT_SUBREDDITS[1]))) = 2

\* ------------------------------------------------------------------ search_concerts, step by step
\* A search whose iterator never finishes.
SearchLeftOpen(open, call) == open

\* The iterator of a search is exhausted or has raised: the search is over.
SearchOver(open, call) == open \ {call}

\* `subreddit = self.reddit.subreddit(subreddit_name)` succeeds;
\* `subreddit_results = []`, `seen_posts = set()`.
AcquireChannel ==
    /\ pc = "general"
    /\ ci <= Len(CONCERT_SUBREDDITS)
    /\ world # <<>>
    /\ world[ci].acq = "ok"
    /\ pc' = "query"
    /\ qi' = 1
    /\ subreddit_results' = <<>>
    /\ seen_posts' = FreshSeen(seen_posts)
    /\ UNCHANGED <<request, reddit, impl, mode, artist, location, extra, ci, results,
                   search_query_bound, calls, yielded, failed, nYield, nFail, outcome, response,
                   fn, arg, ret, callNo, world, first, pending, inflight>>

\* `for search_query in search_terms[:3]` takes its next query and
\* subreddit.search(search_query, ...) is called.
IssueSearch ==
    /\ pc = "query"
    /\ qi <= QueryLimit
    /\ LET queries == Take(GenerateSearchTerms(artist, location), QueryLimit)
       IN  calls' = Append(calls, [channel |-> ci, qi |-> qi, query |-> queries[qi]])
    /\ search_query_bound' = TRUE
    /\ pending' = Answer(ci, qi).posts
    /\ inflight' = inflight \cup {<<ci, qi>>}
    /\ pc' = "consume"
    /\ UNCHANGED <<request, reddit, impl, mode, artist, location, extra, ci, results, seen_posts,
                   yielded, failed, nYield, nFail, outcome, response,
                   fn, arg, ret, callNo, world, first, qi, subreddit_results>>

\* The search yields its next submission and the loop body runs on it; if its
\* assembly raises, the inner handler goes on to the next query.
ConsumeResult ==
    /\ pc = "consume"
    /\ pending # <<>>
    /\ LET p == Head(pending)
           r == ConsumeGeneral(<<p>>, 1,
                    [seen |-> seen_posts, recs |-> subreddit_results, raised |-> FALSE],
                    IF Len(pending) = 1 THEN Answer(ci, qi).end ELSE "ok",
                    artist, location)
           raised == r.raised /\ Answer(ci, qi).end = "raise_extract"
       IN  /\ seen_posts' = r.seen
           /\ subreddit_results' = r.recs
           /\ yielded' = [yielded EXCEPT ![ci] = @ \cup {p.id}]
           /\ nYield' = nYield + 1
           /\ IF raised
              THEN /\ pending' = <<>>
                   /\ inflight' = SearchOver(inflight, <<ci, qi>>)
                   /\ failed' = failed \cup {ci}
                   /\ nFail' = nFail + 1
                   /\ qi' = qi + 1
                   /\ pc' = "query"
              ELSE /\ pending' = Tail(pending)
                   /\ UNCHANGED <<inflight, failed, nFail, qi, pc>>
    /\ UNCHANGED <<request, reddit, impl, mode, artist, location, extra, ci, results,
                   search_query_bound, calls, outcome, response,
                   fn, arg, ret, callNo, world, first>>

\* The search has nothing more to yield: its iterator stops, or raises.
SearchEnds ==
    /\ pc = "consume"
    /\ pending = <<>>
    /\ inflight' = SearchOver(inflight, <<ci, qi>>)
    /\ IF Answer(ci, qi).end = "raise"
       THEN failed' = failed \cup {ci} /\ nFail' = nFail + 1
       ELSE UNCHANGED <<failed, nFail>>
    /\ qi' = qi + 1
    /\ pc' = "query"
    /\ UNCHANGED <<request, reddit, impl, mode, artist, location, extra, ci, results, seen_posts,
                   search_query_bound, calls, yielded, nYield, outcome, response,
                   fn, arg, ret, callNo, world, first, subreddit_results, pending>>

\* The queries are used up: `if subreddit_results: results[subreddit_name] =
\* subreddit_results`, and the channel loop goes on.
LeaveChannel ==
    /\ pc = "query"
    /\ qi > QueryLimit
    /\ results' = StoreChannel(results, CONCERT_SUBREDDITS[ci], subreddit_results)
    /\ ci' = ci + 1
    /\ pc' = "general"
    /\ UNCHANGED <<request, reddit, impl, mode, artist, location, extra, seen_posts,
                   search_query_bound, calls, yielded, failed, nYield, nFail, outcome, response,
                   fn, arg, ret, callNo, world, first, stepVars>>

NextSteps ==
    \/ HttpSearch
    \/ ToolSearch
    \/ RepeatAcquireFails
    \/ AcquireChannel
    \/ IssueSearch
    \/ ConsumeResult
    \/ SearchEnds
    \/ LeaveChannel
    \/ GeneralReturn

SpecSteps == InitRepeat /\ [][NextSteps]_vars

\* The k-th search issued, as (channel index, query index).
CallAt(k) == <<calls[k].channel, calls[k].qi>>

\* A search has yielded all the provider had for it.
Consumed(call) ==
    \A i \in 1..Len(Answer(call[1], call[2]).posts) :
        Answer(call[1], call[2]).posts[i].id \in yielded[call[1]]

\* C23: the provider searches of one general-mode request are issued one after
\* another in (channel index, query index) order: at most one search is in
\* flight, it is the one issued last, every search issued before it has
\* yielded all its results or failed, the queries of a channel are issued in
\* the order 1, 2, 3 and the channels in the order of the channel list.
C23_SearchesOneAfterAnother ==
    world # <<>> =>
        /\ Cardinality(inflight) <= 1
        /\ \A k \in 1..Len(calls) :
               /\ CallAt(k) \in inflight => k = Len(calls)
               /\ CallAt(k) \notin inflight => Consumed(CallAt(k))
        /\ \A k \in 1..(Len(calls) - 1) :
               \/ /\ calls[k + 1].channel = calls[k].channel
                  /\ calls[k + 1].qi = calls[k].qi + 1
               \/ /\ calls[k + 1].channel > calls[k].channel
                  /\ calls[k].qi = QueryLimit
                  /\ calls[k + 1].qi = 1

\* C23 witness: the first search of the second channel is in flight and has
\* yielded nothing yet, after a search of the first channel yielded a post and
\* failed; the three searches of the first channel were issued before it.
C23_Witness ==
    /\ world # <<>>
    /\ pc = "consume"
    /\ inflight = {<<2, 1>>}
    /\ pending # <<>>
    /\ Len(calls) = QueryLimit + 1
    /\ \E j \in 1..QueryLimit : QueryFails(1, j) /\ Answer(1, j).posts # <<>>

\* Followed step by step, a channel ends with the list its queries make.
StepAgrees ==
    \A c \in 1..Len(CONCERT_SUBREDDITS) :
        (world # <<>> /\ Processed(c) /\ world[c].acq = "ok") =>
            RecsOf(CONCERT_SUBREDDITS[c]) =
                RunQueries(world[c].behs, 1, [seen |-> {}, recs |-> <<>>, failed |-> FALSE],
                           artist, location).recs

\* ------------------------------------------------------------------ search_concerts of both implementations
\* The search the HTTP application has answered is put to the tool server's
\* search_concerts, with the same artist and location and the same provider
\* answers.
CallOtherImplementation ==
    /\ pc = "done"
    /\ callNo = 1
    /\ impl = "main"
    /\ outcome \in {"mapping", "raised"}
    /\ first' = [impl |-> impl, outcome |-> outcome, results |-> results]
    /\ impl' = "mcp"
    /\ callNo' = 2
    /\ pc' = "general"
    /\ ci' = 1
    /\ results' = <<>>
    /\ search_query_bound' = FALSE
    /\ calls' = <<>>
    /\ yielded' = [c \in 1..MaxChannels |-> {}]
    /\ failed' = {}
    /\ nYield' = 0
    /\ nFail' = 0
    /\ outcome' = "none"
    /\ response' = "none"
    /\ UNCHANGED <<request, reddit, mode, artist, location, extra, seen_posts, fn, arg, ret,
                   stepVars, world>>

NextBoth ==
    \/ HttpSearch
    \/ RepeatAcquireFails
    \/ RepeatSearchChannel
    \/ GeneralReturn
    \/ CallOtherImplementation

SpecBoth == InitRepeat /\ [][NextBoth]_vars

\* C24: for the same artist and location and the same provider answers,
\* failures included, search_concerts of the tool server ends as
\* search_concerts of the HTTP application did: with the same mapping, and
\* not raising where the other returned.
C24_ImplementationsAgree ==
    (Repeated /\ impl = "mcp" /\ first.impl = "main") =>
        /\ outcome = first.outcome
        /\ results = first.results

\* ------------------------------------------------------------------ the setlist and edm loops, provider fixed
\* An iteration of a setlist or edm loop in which the channel cannot be acquired.
FixedModeAcquireFails ==
    /\ pc \in {"setlist", "edm"}
    /\ ci <= Len(Channels(mode))
    /\ world # <<>>
    /\ world[ci].acq = "raise"
    /\ ModeAcquireFailsStep

\* An iteration in which the channel's single search is answered as the
\* provider answers the channel's first search.
FixedModeSearchChannel ==
    /\ pc \in {"setlist", "edm"}
    /\ ci <= Len(Channels(mode))
    /\ world # <<>>
    /\ world[ci].acq = "ok"
    /\ ModeSearchStep(Answer(ci, 1))

NextModes ==
    \/ HttpSetlist
    \/ HttpEdm
    \/ ToolSetlist
    \/ ToolEdm
    \/ FixedModeAcquireFails
    \/ FixedModeSearchChannel
    \/ ModeReturn

SpecModes == InitRepeat /\ [][NextModes]_vars

\* The channel's name is a key of the mapping.
Present(name) == \E k \in 1..Len(results) : results[k].name = name

\* The i-th post the channel's search yields passes the mode's test.
PassesAt(c, i) == Accepts(mode, Answer(c, 1).posts[i], artist, location)

\* The channel's iteration meets a failure: the channel cannot be acquired,
\* the search raises, or the assembly of an accepted result raises.
ChannelFails(c) ==
    \/ world[c].acq = "raise"
    \/ Answer(c, 1).end = "raise"
    \/ /\ Answer(c, 1).end = "raise_extract"
       /\ PassesAt(c, Len(Answer(c, 1).posts))

\* The identifiers of the results of the channel's search that pass the test,
\* in the order yielded.
PassingIds(c) ==
    LET passing == SelectSeq([i \in 1..Len(Answer(c, 1).posts) |-> i],
                             LAMBDA i : PassesAt(c, i))
    IN  [k \in 1..Len(passing) |-> Answer(c, 1).posts[passing[k]].id]

\* C25: in setlist and edm modes a channel is a key of the mapping only if its
\* single search was iterated to its end without a failure: a channel whose
\* iteration fails, also after results were accepted, is absent with all its
\* records, and every other channel holds exactly the results that pass its
\* test (and is absent when none does).
C25_FailedChannelAbsent ==
    \A c \in 1..Len(Channels(mode)) :
        (FilterMode /\ world # <<>> /\ Processed(c)) =>
            LET name == Channels(mode)[c]
                recs == RecsOf(name)
            IN  /\ ChannelFails(c) => ~Present(name)
                /\ ~ChannelFails(c) =>
                       /\ [k \in 1..Len(recs) |-> RecId(recs[k])] = PassingIds(c)
                       /\ Present(name) <=> PassingIds(c) # <<>>

\* C25 witness: the handler has answered; the search of the first channel
\* yielded a result that was accepted and then raised, and that channel is
\* absent; the second channel, whose search yielded the same result and
\* ended, is present.
C25_Witness ==
    /\ FilterMode /\ world # <<>> /\ Returned
    /\ world[1].acq = "ok"
    /\ Answer(1, 1).end = "raise"
    /\ Len(Answer(1, 1).posts) = 1 /\ PassesAt(1, 1)
    /\ ~Present(Channels(mode)[1])
    /\ Answer(2, 1).posts = Answer(1, 1).posts
    /\ Present(Channels(mode)[2])

\* ------------------------------------------------------------------ the order of a general search's records

\* The searches of channel c yield identifier a before they first yield b:
\* in an earlier query, or earlier in the same query.
YieldedBefore(c, a, b) ==
    \E j \in 1..QueryLimit : \E i \in 1..Len(Answer(c, j).posts) :
        /\ Answer(c, j).posts[i].id = a
        /\ \A j2 \in 1..QueryLimit : \A i2 \in 1..Len(Answer(c, j2).posts) :
               Answer(c, j2).posts[i2].id = b => (j < j2 \/ (j = j2 /\ i < i2))

\* The position of a channel name in the channel list.
ChannelIndex(name) ==
    CHOOSE c \in 1..Len(CONCERT_SUBREDDITS) : CONCERT_SUBREDDITS[c] = name

\* C26: in a general-mode search each channel's record list is ordered by the
\* first appearance of the identifier: a record first yielded in an earlier
\* query comes before one first yielded in a later query, records first
\* yielded by the same query keep the order in which they were yielded, and
\* the keys of the mapping are in the order of the channel list.
C26_OrderOfFirstAppearance ==
    (world # <<>> /\ GeneralMode /\ pc \in {"general", "done"}) =>
        /\ \A k \in 1..Len(results) :
               LET c == ChannelIndex(results[k].name)
                   recs == results[k].posts
               IN  \A a, b \in 1..Len(recs) :
                       a < b => YieldedBefore(c, RecId(recs[a]), RecId(recs[b]))
        /\ \A k, l \in 1..Len(results) :
               k < l => ChannelIndex(results[k].name) < ChannelIndex(results[l].name)

\* C26 witness: the search returned; the first query of the first channel
\* yielded nothing, its second query the post with the greater identifier,
\* its third query the other post; the channel lists the two in that order.
C26_Witness ==
    /\ world # <<>> /\ GeneralMode /\ Returned
    /\ world[1].acq = "ok"
    /\ Answer(1, 1).posts = <<>>
    /\ Len(Answer(1, 2).posts) = 1
    /\ Len(Answer(1, 3).posts) = 1
    /\ Answer(1, 3).posts[1].id < Answer(1, 2).posts[1].id
    /\ Len(results) = 1
    /\ [k \in 1..Len(results[1].posts) |-> RecId(results[1].posts[k])]
           = <<Answer(1, 2).posts[1].id, Answer(1, 3).posts[1].id>>

====
